---- MODULE Spec2Model ----
(***************************************************************************)
(* Model of the item catalog service: the item repository (categories and  *)
(* items tables plus the mirrored JSON list file), the content-addressed   *)
(* image store and the HTTP handlers AddItem, GetItem, GetItemByID and     *)
(* GetImage.  Requests are served by concurrent workers; every database    *)
(* statement and every file system call is one atomic step.                *)
(*                                                                         *)
(* Strings are sequences of one-character strings, so that prefix, suffix, *)
(* path cleaning and hex encoding are computed, not assumed.               *)
(*                                                                         *)
(* Sources: the repository with the database (Insert, LoadFromDatabase,    *)
(* StoreImage) is src/unnamed/part_000; the handlers and their tests are   *)
(* in src/go/app/infra.go.  The UNIQUE constraint on categories.name and   *)
(* the AUTOINCREMENT keys are those of the schema in setupDB.              *)
(***************************************************************************)
EXTENDS Integers, Sequences, FiniteSets, TLC

\* ------------------------------------------------------------------ bounds
MaxRequests == 2
MaxFaults == 1

\* The workers that serve requests concurrently.
Workers == {1, 2}

\* ----------------------------------------------------------------- strings
HasPrefix(s, prefix) ==
    /\ Len(s) >= Len(prefix)
    /\ SubSeq(s, 1, Len(prefix)) = prefix

HasSuffix(s, suffix) ==
    /\ Len(s) >= Len(suffix)
    /\ SubSeq(s, Len(s) - Len(suffix) + 1, Len(s)) = suffix

Contains(s, sub) ==
    \E i \in 1..(Len(s) - Len(sub) + 1) : SubSeq(s, i, i + Len(sub) - 1) = sub

Slash == "/"
Dot == <<".">>
DotDot == <<".", ".">>

\* strings.Split(s, "/"): the elements between separators, empty ones kept.
RECURSIVE SplitFrom(_, _, _)
SplitFrom(s, i, cur) ==
    IF i > Len(s) THEN <<cur>>
    ELSE IF s[i] = Slash THEN <<cur>> \o SplitFrom(s, i + 1, <<>>)
    ELSE SplitFrom(s, i + 1, Append(cur, s[i]))

Split(s) == SplitFrom(s, 1, <<>>)

\* strings.Join(elems, "/")
RECURSIVE JoinSlash(_)
JoinSlash(elems) ==
    IF elems = <<>> THEN <<>>
    ELSE IF Len(elems) = 1 THEN elems[1]
    ELSE elems[1] \o <<Slash>> \o JoinSlash(Tail(elems))

RECURSIVE SelectNonEmpty(_)
SelectNonEmpty(elems) ==
    IF elems = <<>> THEN <<>>
    ELSE IF Head(elems) = <<>> THEN SelectNonEmpty(Tail(elems))
    ELSE <<Head(elems)>> \o SelectNonEmpty(Tail(elems))

\* ------------------------------------------------------------------- paths
\* The element stack of filepath.Clean: "." and empty elements are dropped, an
\* inner ".." removes the element before it, a leading ".." is kept on a
\* relative path and dropped on a rooted one.
RECURSIVE CleanElems(_, _, _)
CleanElems(elems, out, rooted) ==
    IF elems = <<>> THEN out
    ELSE LET e == Head(elems)
             rest == Tail(elems)
         IN IF e = <<>> \/ e = Dot THEN CleanElems(rest, out, rooted)
            ELSE IF e = DotDot
                 THEN IF out # <<>> /\ out[Len(out)] # DotDot
                      THEN CleanElems(rest, SubSeq(out, 1, Len(out) - 1), rooted)
                      ELSE IF rooted THEN CleanElems(rest, out, rooted)
                      ELSE CleanElems(rest, Append(out, DotDot), rooted)
            ELSE CleanElems(rest, Append(out, e), rooted)

\* filepath.Clean
Clean(path) ==
    IF path = <<>> THEN Dot
    ELSE LET rooted == path[1] = Slash
             out == JoinSlash(CleanElems(Split(path), <<>>, rooted))
         IN IF rooted THEN <<Slash>> \o out
            ELSE IF out = <<>> THEN Dot ELSE out

\* filepath.Join(a, b)
Join(a, b) ==
    LET elems == SelectNonEmpty(<<a, b>>)
    IN IF elems = <<>> THEN <<>> ELSE Clean(JoinSlash(elems))

\* filepath.Base
Base(path) ==
    IF path = <<>> THEN Dot
    ELSE LET elems == SelectNonEmpty(Split(path))
         IN IF elems = <<>> THEN <<Slash>> ELSE elems[Len(elems)]

RECURSIVE CommonLen(_, _)
CommonLen(a, b) ==
    IF a = <<>> \/ b = <<>> \/ Head(a) # Head(b) THEN 0
    ELSE 1 + CommonLen(Tail(a), Tail(b))

RECURSIVE Ups(_)
Ups(n) == IF n = 0 THEN <<>> ELSE <<DotDot>> \o Ups(n - 1)

\* filepath.Rel(base, targ): [err, rel].
Rel(basepath, targpath) ==
    LET base0 == Clean(basepath)
        targ == Clean(targpath)
        base == IF base0 = Dot THEN <<>> ELSE base0
        baseSlashed == base # <<>> /\ base[1] = Slash
        targSlashed == targ # <<>> /\ targ[1] = Slash
        be == IF base = <<>> THEN <<>> ELSE Split(base)
        te == IF targ = <<>> THEN <<>> ELSE Split(targ)
        k == CommonLen(be, te)
        bRest == SubSeq(be, k + 1, Len(be))
        tRest == SubSeq(te, k + 1, Len(te))
    IN IF targ = base0 THEN [err |-> FALSE, rel |-> Dot]
       ELSE IF baseSlashed # targSlashed THEN [err |-> TRUE, rel |-> <<>>]
       ELSE IF bRest # <<>> /\ bRest[1] = DotDot THEN [err |-> TRUE, rel |-> <<>>]
       ELSE IF bRest # <<>>
            THEN [err |-> FALSE, rel |-> JoinSlash(Ups(Len(bRest)) \o tRest)]
       ELSE [err |-> FALSE, rel |-> JoinSlash(tRest)]


\* ---------------------------------------------------------------- encoding
HexDigits == <<"0", "1", "2", "3", "4", "5", "6", "7",
               "8", "9", "a", "b", "c", "d", "e", "f">>

\* hex.EncodeToString: two lower-case hex digits per byte.
RECURSIVE EncodeToString(_)
EncodeToString(bytes) ==
    IF bytes = <<>> THEN <<>>
    ELSE <<HexDigits[(Head(bytes) \div 16) + 1], HexDigits[(Head(bytes) % 16) + 1]>>
         \o EncodeToString(Tail(bytes))

\* sha256.Sum256, abstracted: a two-byte digest that differs for
\* different inputs of the model (the collision resistance the code relies
\* on), and is not the input itself.
Sum256(image) ==
    <<(Len(image) * 16 + 7) % 256>>
    \o <<(IF image = <<>> THEN 255 ELSE (Head(image) * 37 + 11) % 256)>>

\* strconv.Atoi on a string of decimal digits: [err, n].
Digits == <<"0", "1", "2", "3", "4", "5", "6", "7", "8", "9">>
DigitValue(c) == (CHOOSE i \in 1..10 : Digits[i] = c) - 1
IsDigit(c) == \E i \in 1..10 : Digits[i] = c

RECURSIVE ParseDigits(_, _)
ParseDigits(s, acc) ==
    IF s = <<>> THEN acc ELSE ParseDigits(Tail(s), acc * 10 + DigitValue(Head(s)))

Atoi(s) ==
    LET neg == s # <<>> /\ s[1] = "-"
        signed == s # <<>> /\ (s[1] = "-" \/ s[1] = "+")
        digits == IF signed THEN Tail(s) ELSE s
    IN IF digits = <<>> \/ \E i \in 1..Len(digits) : ~IsDigit(digits[i])
       THEN [err |-> TRUE, n |-> 0]
       ELSE [err |-> FALSE,
             n |-> IF neg THEN 0 - ParseDigits(digits, 0) ELSE ParseDigits(digits, 0)]

\* ----------------------------------------------------------- configuration
\* Handlers.imgDirPath
ImgDirPath == <<"i", "m", "a", "g", "e", "s">>
ExtJpg == <<".", "j", "p", "g">>
ExtJpeg == <<".", "j", "p", "e", "g">>
DefaultJpg == <<"d", "e", "f", "a", "u", "l", "t", ".", "j", "p", "g">>
\* fmt.Sprintf("item received: %s", item.Name)
ItemReceived(name) == <<"i", "t", "e", "m", " ", "r", "e", "c", "e", "i", "v", "e", "d", ":", " ">> \o name
\* r.URL.Path of GET /images/{filename}
ImagesURL(filename) == <<"/", "i", "m", "a", "g", "e", "s", "/">> \o filename

\* A file next to the image directory, which no request may be served.
SecretPath == <<"s", "e", "c", "r", "e", "t", ".", "j", "p", "g">>

\* ------------------------------------------------------------------ inputs
Names == {<<"x">>}
Categories == {<<"c">>, <<"d">>}
Images == {<<1>>, <<2>>}
\* The image part of the multipart form: absent, or present with its bytes.
NoFile == [present |-> FALSE, data |-> <<>>]
FilePart(data) == [present |-> TRUE, data |-> data]

\* The forms of POST /items: the valid ones, and forms with a field empty or
\* missing.
ValidForms ==
    {[name |-> n, category |-> c, file |-> FilePart(i)] :
        n \in Names, c \in Categories, i \in Images}
InvalidForms ==
    { [name |-> <<>>, category |-> <<"c">>, file |-> FilePart(<<1>>)],
      [name |-> <<"x">>, category |-> <<>>, file |-> FilePart(<<1>>)],
      [name |-> <<"x">>, category |-> <<"c">>, file |-> FilePart(<<>>)],
      [name |-> <<"x">>, category |-> <<"c">>, file |-> NoFile],
      [name |-> <<>>, category |-> <<>>, file |-> NoFile] }
Forms == ValidForms \cup InvalidForms

HashName(image) == EncodeToString(Sum256(image)) \o ExtJpg

IdStrings == {<<"1">>, <<"7">>, <<"x">>}

FileNames ==
    { <<>>,
      <<"a", ".", "j", "p", "g">>,
      <<"b", ".", "j", "p", "e", "g">>,
      <<"c", ".", "p", "n", "g">>,
      <<".", ".", "a", ".", "j", "p", "g">>,
      <<".", ".", "/", "s", "e", "c", "r", "e", "t", ".", "j", "p", "g">>,
      <<"x", "/", ".", ".", "/", "a", ".", "j", "p", "g">>,
      <<"x", "/", ".", ".", "/", ".", ".", "/", "s", "e", "c", "r", "e", "t", ".", "j", "p", "g">>,
      <<"d", "e", "f", "a", "u", "l", "t", ".", "j", "p", "g">>,
      <<"/", "a", ".", "j", "p", "g">>,
      <<".", ".">>,
      HashName(<<1>>) }

\* ------------------------------------------------------------------- state
VARIABLES
    categories,   \* table categories(id PK autoincrement, name unique), in rowid order
    items,        \* table items(id PK autoincrement, name, category_id, image_name)
    files,        \* the file system: cleaned path -> content, for the files that exist
    jsonFile,     \* the JSON list file of the repository (itemRepository.fileName)
    pc,           \* per worker: the step its request is at
    req,          \* per worker: the request it serves
    loc,          \* per worker: the handler's local variables
    resp,         \* per worker: the http.ResponseWriter (status, writes to the body)
    aux,          \* per worker: history of the request (for the properties only)
    faults,       \* storage and I/O failures that have occurred so far
    nreq,         \* requests started so far
    rowAdds,      \* history: the (name, category, image bytes) of every item row inserted
    okAdds,       \* history: the same for every Insert that returned nil
    stored        \* history: paths for which a storeImage call has returned success

vars == <<categories, items, files, jsonFile, pc, req, loc, resp, aux,
          faults, nreq, rowAdds, okAdds, stored>>

storage == <<categories, items, files, jsonFile>>
history == <<rowAdds, okAdds, stored>>

NoReq == [kind |-> "none", name |-> <<>>, category |-> <<>>, file |-> NoFile,
          idStr |-> <<>>, filename |-> <<>>]
NoItem == [ID |-> 0, Name |-> <<>>, Category |-> <<>>, Image |-> <<>>]
NoLoc == [filePath |-> <<>>, item |-> NoItem, categoryID |-> 0, itemList |-> <<>>,
          imgPath |-> <<>>]
NoResp == [status |-> 0, body |-> <<>>]
NoAux == [wrote |-> FALSE, imgWrote |-> FALSE, faulted |-> FALSE, catMissing |-> FALSE,
          statStored |-> FALSE, load |-> "none", outcome |-> "none",
          catCreated |-> FALSE, itemCreated |-> FALSE]

\* ---------------------------------------------------------------- responses
StatusOK == 200
StatusBadRequest == 400
StatusNotFound == 404
StatusInternalServerError == 500

\* ResponseWriter: the first WriteHeader (explicit, or implied by the first
\* Write) decides the status; every Write appends to the body.
WriteHeader(w, code) == [w EXCEPT !.status = IF w.status = 0 THEN code ELSE w.status]
Write(w, kind, value) ==
    [WriteHeader(w, StatusOK) EXCEPT !.body = Append(w.body, [kind |-> kind, value |-> value])]

\* http.Error(w, text, code)
HttpError(w, text, code) == Write(WriteHeader(w, code), "error", text)

\* json.NewEncoder(w).Encode(value)
Encode(w, value) == Write(w, "json", value)

\* ------------------------------------------------------------------- files
\* (mutant) the existence check never finds the file.
Stat_Never(path) == FALSE

\* os.Stat(path) succeeds
Stat(path) == path \in DOMAIN files

\* path with content, whether or not it existed
PutFile(fs, path, content) ==
    [q \in DOMAIN fs \cup {path} |-> IF q = path THEN content ELSE fs[q]]

\* ---------------------------------------------------------------- requests
CanStart(p) ==
    /\ pc[p] \in {"idle", "done"}
    /\ nreq < MaxRequests

Begin(p, request, first) ==
    /\ nreq' = nreq + 1
    /\ req' = [req EXCEPT ![p] = request]
    /\ pc' = [pc EXCEPT ![p] = first]
    /\ loc' = [loc EXCEPT ![p] = NoLoc]
    /\ resp' = [resp EXCEPT ![p] = NoResp]
    /\ aux' = [aux EXCEPT ![p] = NoAux]
    /\ UNCHANGED <<storage, history, faults>>

\* POST /items
StartAddItem(p) ==
    /\ CanStart(p)
    /\ \E f \in Forms :
          Begin(p, [NoReq EXCEPT !.kind = "AddItem", !.name = f.name,
                                  !.category = f.category, !.file = f.file], "AddItem")

\* GET /items
StartGetItem(p) ==
    /\ CanStart(p)
    /\ Begin(p, [NoReq EXCEPT !.kind = "GetItem"], "GetItem")

\* GET /items/{item_id}
StartGetItemByID(p) ==
    /\ CanStart(p)
    /\ \E s \in IdStrings :
          Begin(p, [NoReq EXCEPT !.kind = "GetItemByID", !.idStr = s], "GetItemByID")

\* GET /images/{filename}
StartGetImage(p) ==
    /\ CanStart(p)
    /\ \E f \in FileNames :
          Begin(p, [NoReq EXCEPT !.kind = "GetImage", !.filename = f], "GetImage")

\* The handler returns: the response is complete.
Done(p, w) ==
    /\ pc' = [pc EXCEPT ![p] = "done"]
    /\ resp' = [resp EXCEPT ![p] = w]
    /\ loc' = [loc EXCEPT ![p] = NoLoc]

Goto(p, step) ==
    /\ pc' = [pc EXCEPT ![p] = step]
    /\ UNCHANGED resp

\* A storage or I/O call of worker p fails.
CanFail == faults < MaxFaults
Fault(p, outcome) ==
    /\ faults' = faults + 1
    /\ aux' = [aux EXCEPT ![p].faulted = TRUE, ![p].outcome = outcome]


\* ------------------------------------------------------------------ AddItem
\* (mutant) the name is not validated.
parseAddItemRequest_NoNameCheck(r) ==
    IF ~r.file.present THEN "failed to get image"
    ELSE IF r.category = <<>> THEN "category is requred"
    ELSE IF Len(r.file.data) = 0 THEN "image is requred"
    ELSE ""

\* parseAddItemRequest: the error it returns, "" when the request is valid.
parseAddItemRequest(r) ==
    IF ~r.file.present THEN "failed to get image"
    ELSE IF r.name = <<>> THEN "name is required"
    ELSE IF r.category = <<>> THEN "category is requred"
    ELSE IF Len(r.file.data) = 0 THEN "image is requred"
    ELSE ""

\* AddItem, up to the call of storeImage.
AddItem(p) ==
    /\ pc[p] = "AddItem"
    /\ LET err == parseAddItemRequest(req[p])
       IN IF err # ""
          THEN Done(p, HttpError(resp[p], err, StatusBadRequest))
          ELSE Goto(p, "storeImage") /\ UNCHANGED loc
    /\ UNCHANGED <<storage, history, req, aux, faults, nreq>>

\* (mutant) the item keeps the whole path instead of its base name.
BuildItem_FullPath(r, fileName) ==
    [ID |-> 0, Name |-> r.name, Category |-> r.category, Image |-> fileName]

\* The item AddItem builds from the request and the path storeImage returned.
BuildItem(r, fileName) ==
    [ID |-> 0, Name |-> r.name, Category |-> r.category, Image |-> Base(fileName)]

\* storeImage returned filePath without error: AddItem goes on to Insert.
ImageStored(p, filePath) ==
    /\ loc' = [loc EXCEPT ![p].filePath = filePath,
                          ![p].item = BuildItem(req[p], filePath)]
    /\ stored' = stored \cup {filePath}
    /\ Goto(p, "Insert")

\* (mutant) the handler does not return after http.Error.
AddItemFails_NoReturn(p, text) ==
    Done(p, Encode(HttpError(resp[p], text, StatusInternalServerError),
                   [message |-> ItemReceived(req[p].name)]))

\* A call of AddItem fails downstream: http.Error with 500.
AddItemFails(p, text) ==
    Done(p, HttpError(resp[p], text, StatusInternalServerError))

\* storeImage: the path of the image, and the check whether it exists already.
ImageFilePath(image) == Join(ImgDirPath, HashName(image))

storeImage(p) ==
    /\ pc[p] = "storeImage"
    /\ LET filePath == ImageFilePath(req[p].file.data)
       IN /\ aux' = [aux EXCEPT ![p].statStored = filePath \in stored]
          /\ IF Stat(filePath)
             THEN ImageStored(p, filePath)
             ELSE /\ Goto(p, "WriteFile")
                  /\ loc' = [loc EXCEPT ![p].filePath = filePath]
                  /\ UNCHANGED stored
    /\ UNCHANGED <<storage, rowAdds, okAdds, req, faults, nreq>>

\* StoreImage, os.WriteFile: the file is created or truncated ...
WriteFile(p) ==
    /\ pc[p] = "WriteFile"
    /\ files' = PutFile(files, loc[p].filePath, <<>>)
    /\ aux' = [aux EXCEPT ![p].wrote = TRUE, ![p].imgWrote = TRUE]
    /\ Goto(p, "WriteFile_write")
    /\ UNCHANGED <<categories, items, jsonFile, history, req, loc, faults, nreq>>

\* (mutant) the error of storeImage is ignored and the item is inserted.
WriteFileOpenFails_Ignored(p) ==
    /\ pc[p] = "WriteFile"
    /\ CanFail
    /\ Fault(p, "storeImage failed")
    /\ loc' = [loc EXCEPT ![p].item = BuildItem(req[p], loc[p].filePath)]
    /\ Goto(p, "Insert")
    /\ UNCHANGED <<storage, history, req, nreq>>

\* ... or cannot be.
WriteFileOpenFails(p) ==
    /\ pc[p] = "WriteFile"
    /\ CanFail
    /\ Fault(p, "storeImage failed")
    /\ AddItemFails(p, "failed to write image file")
    /\ UNCHANGED <<storage, history, req, nreq>>

\* ... and then written,
WriteFile_write(p) ==
    /\ pc[p] = "WriteFile_write"
    /\ files' = PutFile(files, loc[p].filePath, req[p].file.data)
    /\ ImageStored(p, loc[p].filePath)
    /\ UNCHANGED <<categories, items, jsonFile, rowAdds, okAdds, req, aux, faults, nreq>>

\* ... unless the write fails, which leaves the file as it is.
WriteFileWriteFails(p) ==
    /\ pc[p] = "WriteFile_write"
    /\ CanFail
    /\ Fault(p, "storeImage failed")
    /\ AddItemFails(p, "failed to write image file")
    /\ UNCHANGED <<storage, history, req, nreq>>

\* ------------------------------------------------------------------- Insert
\* SELECT id FROM categories WHERE name = ?
SelectCategory(name) == SelectSeq(categories, LAMBDA row : row.name = name)

\* (mutant) the table has no UNIQUE constraint.
UniqueViolation_None(name) == FALSE

\* The UNIQUE constraint on categories.name
UniqueViolation(name) == \E i \in 1..Len(categories) : categories[i].name = name

\* The id AUTOINCREMENT gives the next row of a table nothing is deleted from.
NextID(table) == Len(table) + 1

\* Insert: the lookup of the category.
Insert(p) ==
    /\ pc[p] = "Insert"
    /\ LET rows == SelectCategory(loc[p].item.Category)
       IN IF rows = <<>>
          THEN /\ Goto(p, "Insert_category")
               /\ aux' = [aux EXCEPT ![p].catMissing = TRUE]
               /\ UNCHANGED loc
          ELSE /\ Goto(p, "Insert_item")
               /\ loc' = [loc EXCEPT ![p].categoryID = rows[1].id]
               /\ UNCHANGED aux
    /\ UNCHANGED <<storage, history, req, faults, nreq>>

\* A database statement or file call of Insert, at step `step`, returns an
\* error: Insert returns it and AddItem answers 500.
InsertFails(p, step) ==
    /\ pc[p] = step
    /\ CanFail
    /\ Fault(p, "Insert failed")
    /\ AddItemFails(p, "storage error")
    /\ UNCHANGED <<storage, history, req, nreq>>

InsertSelectFails(p) == InsertFails(p, "Insert")

\* INSERT INTO categories (name) VALUES (?)
Insert_category(p) ==
    /\ pc[p] = "Insert_category"
    /\ LET name == loc[p].item.Category
       IN IF UniqueViolation(name)
          THEN /\ AddItemFails(p, "UNIQUE constraint failed: categories.name")
               /\ aux' = [aux EXCEPT ![p].outcome = "Insert failed"]
               /\ UNCHANGED categories
          ELSE /\ categories' = Append(categories, [id |-> NextID(categories), name |-> name])
               /\ loc' = [loc EXCEPT ![p].categoryID = NextID(categories)]
               /\ aux' = [aux EXCEPT ![p].wrote = TRUE, ![p].catCreated = TRUE]
               /\ Goto(p, "Insert_item")
    /\ UNCHANGED <<items, files, jsonFile, history, req, faults, nreq>>

InsertCategoryFails(p) == InsertFails(p, "Insert_category")

\* INSERT INTO items (name, category_id, image_name) VALUES (?, ?, ?)
Insert_item(p) ==
    /\ pc[p] = "Insert_item"
    /\ items' = Append(items, [id |-> NextID(items), name |-> loc[p].item.Name,
                               category_id |-> loc[p].categoryID,
                               image_name |-> loc[p].item.Image])
    /\ rowAdds' = Append(rowAdds, <<req[p].name, req[p].category, req[p].file.data>>)
    /\ aux' = [aux EXCEPT ![p].wrote = TRUE, ![p].itemCreated = TRUE]
    /\ Goto(p, "Insert_open")
    /\ UNCHANGED <<categories, files, jsonFile, okAdds, stored, req, loc, faults, nreq>>

InsertItemFails(p) == InsertFails(p, "Insert_item")

\* os.OpenFile(i.fileName, os.O_RDWR|os.O_CREATE, 0666)
Insert_open(p) ==
    /\ pc[p] = "Insert_open"
    /\ jsonFile' = [jsonFile EXCEPT !.exists = TRUE]
    /\ aux' = [aux EXCEPT ![p].wrote = aux[p].wrote \/ ~jsonFile.exists]
    /\ Goto(p, "Insert_decode")
    /\ UNCHANGED <<categories, items, files, history, req, loc, faults, nreq>>

InsertOpenFails(p) == InsertFails(p, "Insert_open")

\* decoder.Decode(&itemList), where EOF on an empty file leaves the list empty,
\* followed by the append of the new item.
Insert_decode(p) ==
    /\ pc[p] = "Insert_decode"
    /\ loc' = [loc EXCEPT ![p].itemList =
                  Append(IF jsonFile.empty THEN <<>> ELSE jsonFile.items, loc[p].item)]
    /\ Goto(p, "Insert_truncate")
    /\ UNCHANGED <<storage, history, req, aux, faults, nreq>>

InsertDecodeFails(p) == InsertFails(p, "Insert_decode")

\* file.Seek(0, 0); file.Truncate(0)
Insert_truncate(p) ==
    /\ pc[p] = "Insert_truncate"
    /\ jsonFile' = [jsonFile EXCEPT !.empty = TRUE, !.items = <<>>]
    /\ aux' = [aux EXCEPT ![p].wrote = TRUE]
    /\ Goto(p, "Insert_encode")
    /\ UNCHANGED <<categories, items, files, history, req, loc, faults, nreq>>

\* The error of file.Truncate is discarded: the file keeps its content and
\* Insert goes on to write the list from offset zero.
InsertTruncateFails(p) ==
    /\ pc[p] = "Insert_truncate"
    /\ CanFail
    /\ Fault(p, aux[p].outcome)
    /\ Goto(p, "Insert_encode")
    /\ UNCHANGED <<storage, history, req, loc, nreq>>

\* encoder.Encode(itemList); Insert returns nil and AddItem answers with the
\* confirmation message.
Insert_encode(p) ==
    /\ pc[p] = "Insert_encode"
    /\ jsonFile' = [jsonFile EXCEPT !.empty = FALSE, !.items = loc[p].itemList]
    /\ okAdds' = Append(okAdds, <<req[p].name, req[p].category, req[p].file.data>>)
    /\ aux' = [aux EXCEPT ![p].wrote = TRUE, ![p].outcome = "ok"]
    /\ Done(p, Encode(resp[p], [message |-> ItemReceived(loc[p].item.Name)]))
    /\ UNCHANGED <<categories, items, files, rowAdds, stored, req, faults, nreq>>

InsertEncodeFails(p) == InsertFails(p, "Insert_encode")

\* --------------------------------------------------------- LoadFromDatabase
\* SELECT items.id, items.name, categories.name, items.image_name
\* FROM items JOIN categories ON items.category_id = categories.id
RowsOf(item) ==
    LET cats == SelectSeq(categories, LAMBDA c : c.id = item.category_id)
    IN [i \in 1..Len(cats) |->
           [ID |-> item.id, Name |-> item.name, Category |-> cats[i].name,
            Image |-> item.image_name]]

RECURSIVE JoinRows(_)
JoinRows(rows) ==
    IF rows = <<>> THEN <<>> ELSE RowsOf(Head(rows)) \o JoinRows(Tail(rows))

\* LoadFromDatabase: [items, err].  The query or a row scan may fail ("error"),
\* and the iteration may end early on an error of rows.Next that is left in
\* rows.Err(), after k rows ("truncated").
LoadFromDatabase(outcome, k) ==
    IF outcome = "error" THEN [items |-> <<>>, err |-> TRUE]
    ELSE IF outcome = "truncated"
         THEN [items |-> SubSeq(JoinRows(items), 1, k), err |-> FALSE]
    ELSE [items |-> JoinRows(items), err |-> FALSE]

\* ------------------------------------------------------------------ GetItem
\* The response of GetItem for a result of LoadFromDatabase.
GetItemResponse(w, load) ==
    LET w1 == IF load.err
              THEN HttpError(w, "storage error", StatusInternalServerError)
              ELSE w
    IN Encode(w1, [items |-> load.items])

GetItemWith(p, outcome, k) ==
    /\ pc[p] = "GetItem"
    /\ Done(p, GetItemResponse(resp[p], LoadFromDatabase(outcome, k)))
    /\ UNCHANGED <<storage, history, req, nreq>>

GetItem(p) ==
    /\ GetItemWith(p, "ok", 0)
    /\ aux' = [aux EXCEPT ![p].load = "ok"]
    /\ UNCHANGED faults

\* A failure of the load of worker p.
LoadFault(p, outcome) ==
    /\ CanFail
    /\ faults' = faults + 1
    /\ aux' = [aux EXCEPT ![p].faulted = TRUE, ![p].load = outcome]

GetItemLoadFails(p) ==
    /\ GetItemWith(p, "error", 0)
    /\ LoadFault(p, "error")

GetItemLoadTruncated(p) ==
    /\ \E k \in 0..(Len(items) - 1) : GetItemWith(p, "truncated", k)
    /\ LoadFault(p, "truncated")

\* -------------------------------------------------------------- GetItemByID
\* (mutant) the id is taken for a position in the list.
Matching_ByPosition(list, id) == SelectSeq(list, LAMBDA item : item.ID = id + 1)

\* The linear scan: the items with the id, in order (the first is taken).
Matching(list, id) == SelectSeq(list, LAMBDA item : item.ID = id)

GetItemByIDResponse(w, idStr, load) ==
    LET id == Atoi(idStr)
    IN IF id.err THEN HttpError(w, "invalid syntax", StatusBadRequest)
       ELSE IF load.err THEN HttpError(w, "storage error", StatusInternalServerError)
       ELSE IF Matching(load.items, id.n) = <<>>
            THEN HttpError(w, "Item not found", StatusNotFound)
       ELSE Encode(w, [item |-> Matching(load.items, id.n)[1]])

GetItemByIDWith(p, outcome, k) ==
    /\ pc[p] = "GetItemByID"
    /\ Done(p, GetItemByIDResponse(resp[p], req[p].idStr, LoadFromDatabase(outcome, k)))
    /\ UNCHANGED <<storage, history, req, nreq>>

GetItemByID(p) ==
    /\ GetItemByIDWith(p, "ok", 0)
    /\ aux' = [aux EXCEPT ![p].load = IF Atoi(req[p].idStr).err THEN "none" ELSE "ok"]
    /\ UNCHANGED faults

GetItemByIDLoadFails(p) ==
    /\ ~Atoi(req[p].idStr).err
    /\ GetItemByIDWith(p, "error", 0)
    /\ LoadFault(p, "error")

GetItemByIDLoadTruncated(p) ==
    /\ ~Atoi(req[p].idStr).err
    /\ \E k \in 0..(Len(items) - 1) : GetItemByIDWith(p, "truncated", k)
    /\ LoadFault(p, "truncated")

\* ----------------------------------------------------------------- GetImage
\* (mutant) the path is not checked to lie in the image directory.
buildImagePath_NoTraversalCheck(imageFileName) ==
    LET imgPath == Join(ImgDirPath, Clean(imageFileName))
    IN IF ~HasSuffix(imgPath, ExtJpg) /\ ~HasSuffix(imgPath, ExtJpeg)
       THEN [path |-> <<>>, err |-> "suffix"]
       ELSE IF ~Stat(imgPath) THEN [path |-> imgPath, err |-> "not found"]
       ELSE [path |-> imgPath, err |-> ""]

\* buildImagePath: [path, err], err one of "" (nil), "invalid", "suffix" and
\* "not found" (errImageNotFound).
buildImagePath(imageFileName) ==
    LET imgPath == Join(ImgDirPath, Clean(imageFileName))
        rel == Rel(ImgDirPath, imgPath)
    IN IF rel.err \/ HasPrefix(rel.rel, DotDot)
       THEN [path |-> <<>>, err |-> "invalid"]
       ELSE IF ~HasSuffix(imgPath, ExtJpg) /\ ~HasSuffix(imgPath, ExtJpeg)
            THEN [path |-> <<>>, err |-> "suffix"]
       ELSE IF ~Stat(imgPath) THEN [path |-> imgPath, err |-> "not found"]
       ELSE [path |-> imgPath, err |-> ""]

\* GetImage, up to the call of http.ServeFile.
GetImage(p) ==
    /\ pc[p] = "GetImage"
    /\ IF req[p].filename = <<>>
       THEN Done(p, HttpError(resp[p], "filename is required", StatusBadRequest))
       ELSE LET built == buildImagePath(req[p].filename)
            IN IF built.err \notin {"", "not found"}
               THEN Done(p, HttpError(resp[p], built.err, StatusBadRequest))
               ELSE /\ Goto(p, "ServeFile")
                    /\ loc' = [loc EXCEPT ![p].imgPath =
                                  IF built.err = "not found"
                                  THEN Join(ImgDirPath, DefaultJpg)
                                  ELSE built.path]
    /\ UNCHANGED <<storage, history, req, aux, faults, nreq>>

\* http.ServeFile refuses a request whose URL path has a ".." element.
ContainsDotDot(urlPath) ==
    \E i \in 1..Len(Split(urlPath)) : Split(urlPath)[i] = DotDot

\* http.ServeFile(w, r, name)
ServeFileResponse(w, urlPath, name) ==
    IF ContainsDotDot(urlPath) THEN HttpError(w, "invalid URL path", StatusBadRequest)
    ELSE IF ~Stat(name) THEN HttpError(w, "404 page not found", StatusNotFound)
    ELSE Write(w, "file", [path |-> name, content |-> files[name]])

ServeFile(p) ==
    /\ pc[p] = "ServeFile"
    /\ Done(p, ServeFileResponse(resp[p], ImagesURL(req[p].filename), loc[p].imgPath))
    /\ UNCHANGED <<storage, history, req, aux, faults, nreq>>

\* --------------------------------------------------------- specifications
\* The file system with the default image, a file outside of the image
\* directory, and the given images stored.
DirectoryOf(imgs) ==
    [q \in {Join(ImgDirPath, DefaultJpg), SecretPath} \cup {ImageFilePath(i) : i \in imgs} |->
        IF q = Join(ImgDirPath, DefaultJpg) THEN <<13>>
        ELSE IF q = SecretPath THEN <<42>>
        ELSE CHOOSE i \in imgs : ImageFilePath(i) = q]


\* The state the service starts in: empty tables, no list file yet, the image
\* directory holding the default image, and one file outside of it.
Init ==
    /\ categories = <<>>
    /\ items = <<>>
    /\ files = DirectoryOf({})
    /\ jsonFile = [exists |-> FALSE, empty |-> TRUE, items |-> <<>>]
    /\ pc = [p \in Workers |-> "idle"]
    /\ req = [p \in Workers |-> NoReq]
    /\ loc = [p \in Workers |-> NoLoc]
    /\ resp = [p \in Workers |-> NoResp]
    /\ aux = [p \in Workers |-> NoAux]
    /\ faults = 0
    /\ nreq = 0
    /\ rowAdds = <<>>
    /\ okAdds = <<>>
    /\ stored = {}

Next == \E p \in Workers :
    \/ StartAddItem(p)
    \/ StartGetItem(p)
    \/ StartGetItemByID(p)
    \/ AddItem(p)
    \/ storeImage(p)
    \/ WriteFile(p)
    \/ WriteFileOpenFails(p)
    \/ WriteFile_write(p)
    \/ WriteFileWriteFails(p)
    \/ Insert(p)
    \/ InsertSelectFails(p)
    \/ Insert_category(p)
    \/ InsertCategoryFails(p)
    \/ Insert_item(p)
    \/ InsertItemFails(p)
    \/ Insert_open(p)
    \/ InsertOpenFails(p)
    \/ Insert_decode(p)
    \/ InsertDecodeFails(p)
    \/ Insert_truncate(p)
    \/ InsertTruncateFails(p)
    \/ Insert_encode(p)
    \/ InsertEncodeFails(p)
    \/ GetItem(p)
    \/ GetItemLoadFails(p)
    \/ GetItemLoadTruncated(p)
    \/ GetItemByID(p)
    \/ GetItemByIDLoadFails(p)
    \/ GetItemByIDLoadTruncated(p)

Spec == Init /\ [][Next]_vars

\* The image requests, served over every content the image directory can have
\* come to have: each image stored or not.
InitImage ==
    /\ categories = <<>>
    /\ items = <<>>
    /\ \E imgs \in SUBSET Images : files = DirectoryOf(imgs)
    /\ jsonFile = [exists |-> FALSE, empty |-> TRUE, items |-> <<>>]
    /\ pc = [p \in Workers |-> "idle"]
    /\ req = [p \in Workers |-> NoReq]
    /\ loc = [p \in Workers |-> NoLoc]
    /\ resp = [p \in Workers |-> NoResp]
    /\ aux = [p \in Workers |-> NoAux]
    /\ faults = 0
    /\ nreq = 0
    /\ rowAdds = <<>>
    /\ okAdds = <<>>
    /\ stored = {}

NextImage == \E p \in Workers :
    \/ StartGetImage(p)
    \/ GetImage(p)
    \/ ServeFile(p)

SpecImage == InitImage /\ [][NextImage]_vars

\* ============================================================== properties
Finished(p, kind) == pc[p] = "done" /\ req[p].kind = kind

\* The form is valid: a name, a category and a non-empty image part.
ValidForm(r) ==
    /\ r.name # <<>>
    /\ r.category # <<>>
    /\ r.file.present
    /\ r.file.data # <<>>

\* The writes of kind `kind` to the body of a response.
BodyWrites(w, kind) == SelectSeq(w.body, LAMBDA b : b.kind = kind)

RowsNamed(name) == SelectSeq(categories, LAMBDA row : row.name = name)
ItemsOfCategory(id) == SelectSeq(items, LAMBDA row : row.category_id = id)

\* C1: when two AddItem calls for the same category name, which no row has
\* yet, are the only requests and no storage call fails, then whatever the
\* interleaving both answer 200, the name has exactly one category row and two
\* item rows reference it.
C1_ConcurrentNewCategory ==
    \A p, q \in Workers :
        ( /\ p # q
          /\ nreq = 2
          /\ faults = 0
          /\ Finished(p, "AddItem") /\ Finished(q, "AddItem")
          /\ ValidForm(req[p]) /\ ValidForm(req[q])
          /\ req[p].category = req[q].category )
        => /\ resp[p].status = StatusOK
           /\ resp[q].status = StatusOK
           /\ Len(RowsNamed(req[p].category)) = 1
           /\ Len(ItemsOfCategory(RowsNamed(req[p].category)[1].id)) = 2

\* C2: when the load of GetItem fails, the response is 500 and its body holds
\* the error text alone: no JSON is encoded after the error.
C2_NoBodyAfterLoadError ==
    \A p \in Workers :
        (Finished(p, "GetItem") /\ aux[p].load = "error")
        => /\ resp[p].status = StatusInternalServerError
           /\ Len(resp[p].body) = 1
           /\ BodyWrites(resp[p], "json") = <<>>

\* The item LoadFromDatabase must give for an added (name, category, bytes).
IsItemOf(item, t) ==
    /\ item.Name = t[1]
    /\ item.Category = t[2]
    /\ item.Image = EncodeToString(Sum256(t[3])) \o <<".", "j", "p", "g">>

Range(seq) == {seq[i] : i \in 1..Len(seq)}

\* The list a finished GetItem has encoded.
ListOf(w) == BodyWrites(w, "json")[1].value.items

\* C3: when a load without failure follows a successful add of a triple
\* (name, category, image bytes), the list holds as many items matching
\* (name, category, hex digest + ".jpg") as item rows were inserted for the
\* triple: exactly one for a triple added once.
C3_AddThenLoadAll ==
    [][\A p \in Workers :
          (pc[p] = "GetItem" /\ pc'[p] = "done" /\ aux'[p].load = "ok")
          => \A t \in Range(okAdds) :
                /\ Len(SelectSeq(ListOf(resp'[p]), LAMBDA item : IsItemOf(item, t)))
                      = Len(SelectSeq(rowAdds, LAMBDA u : u = t))
                /\ Len(SelectSeq(rowAdds, LAMBDA u : u = t)) >= 1]_vars

C3_Witness ==
    \E p \in Workers :
        /\ Finished(p, "GetItem")
        /\ aux[p].load = "ok"
        /\ Len(okAdds) = 1
        /\ Len(rowAdds) = 1
        /\ Len(SelectSeq(ListOf(resp[p]), LAMBDA item : IsItemOf(item, okAdds[1]))) = 1
        /\ Len(ListOf(resp[p])) = 1

\* C4: an AddItem whose form has an empty name, an empty category or a
\* missing or empty image part answers 400 and has written nothing: no image
\* file, no row, nothing in the list file.
C4_RejectedBeforeAnyWrite ==
    \A p \in Workers :
        (req[p].kind = "AddItem" /\ ~ValidForm(req[p]))
        => /\ ~aux[p].wrote
           /\ pc[p] \in {"AddItem", "done"}
           /\ pc[p] = "done" =>
                 /\ resp[p].status = StatusBadRequest
                 /\ BodyWrites(resp[p], "json") = <<>>

C4_Witness ==
    \E p \in Workers :
        /\ Finished(p, "AddItem")
        /\ req[p].name = <<>>
        /\ req[p].category # <<>>
        /\ req[p].file.present /\ req[p].file.data # <<>>
        /\ resp[p].status = StatusBadRequest
        /\ items = <<>> /\ categories = <<>> /\ ~jsonFile.exists
        /\ DOMAIN files = DOMAIN DirectoryOf({})

\* C5: a storeImage call that starts after a call with the same bytes has
\* returned success writes nothing and returns the same path without an error,
\* and no other file of the directory holds these bytes.
C5_SecondStoreIsNoOp ==
    \A p \in Workers :
        aux[p].statStored
        => /\ ~aux[p].imgWrote
           /\ pc[p] \notin {"storeImage", "WriteFile", "WriteFile_write"}
           /\ aux[p].outcome # "storeImage failed"
           /\ ImageFilePath(req[p].file.data) \in stored
           /\ Stat(ImageFilePath(req[p].file.data))
           /\ pc[p] = "Insert" => loc[p].filePath = ImageFilePath(req[p].file.data)
           /\ \A q \in DOMAIN files :
                 files[q] = req[p].file.data => q = ImageFilePath(req[p].file.data)

C5_Witness ==
    \E p \in Workers :
        /\ aux[p].statStored
        /\ pc[p] = "Insert"
        /\ ~aux[p].imgWrote
        /\ loc[p].filePath = ImageFilePath(req[p].file.data)
        /\ files[loc[p].filePath] = req[p].file.data

\* The path a requested file name stands for, and whether it lies in the
\* image directory.
Resolved(filename) == Join(ImgDirPath, Clean(filename))
InImgDir(path) == path = ImgDirPath \/ HasPrefix(path, ImgDirPath \o <<"/">>)
EndsInJpg(path) ==
    \/ HasSuffix(path, <<".", "j", "p", "g">>)
    \/ HasSuffix(path, <<".", "j", "p", "e", "g">>)

\* C6: a GetImage whose file name resolves outside of the image directory
\* never gets to serve a file: it answers 400 and the body holds no file.
C6_TraversalRejected ==
    \A p \in Workers :
        ( /\ req[p].kind = "GetImage"
          /\ req[p].filename # <<>>
          /\ ~InImgDir(Resolved(req[p].filename)) )
        => /\ pc[p] \in {"GetImage", "done"}
           /\ pc[p] = "done" =>
                 /\ resp[p].status = StatusBadRequest
                 /\ BodyWrites(resp[p], "file") = <<>>

C6_Witness ==
    \E p \in Workers :
        /\ Finished(p, "GetImage")
        /\ Resolved(req[p].filename) = SecretPath
        /\ Stat(SecretPath)
        /\ resp[p].status = StatusBadRequest

\* C7: a GetImage for a file name that resolves to a path in the image
\* directory, ends in .jpg or .jpeg and names no file is answered 200 with the
\* default image.
C7_DefaultImageServed ==
    \A p \in Workers :
        ( /\ Finished(p, "GetImage")
          /\ req[p].filename # <<>>
          /\ InImgDir(Resolved(req[p].filename))
          /\ EndsInJpg(Resolved(req[p].filename))
          /\ ~Stat(Resolved(req[p].filename)) )
        => /\ resp[p].status = StatusOK
           /\ Len(resp[p].body) = 1
           /\ resp[p].body[1].kind = "file"
           /\ resp[p].body[1].value.path = Join(ImgDirPath, DefaultJpg)

\* C8: a GetItemByID with an integer id whose load does not fail answers 404
\* when no item row has the id, and answers 200 with the item of the row that
\* has it otherwise.
C8_FoundOrNotFound ==
    [][\A p \in Workers :
          ( /\ pc[p] = "GetItemByID" /\ pc'[p] = "done"
            /\ ~Atoi(req[p].idStr).err
            /\ aux'[p].load = "ok" )
          => LET id == Atoi(req[p].idStr).n
                 rows == SelectSeq(items, LAMBDA row : row.id = id)
             IN IF rows = <<>>
                THEN /\ resp'[p].status = StatusNotFound
                     /\ BodyWrites(resp'[p], "json") = <<>>
                ELSE /\ resp'[p].status = StatusOK
                     /\ Len(resp'[p].body) = 1
                     /\ resp'[p].body[1].kind = "json"
                     /\ resp'[p].body[1].value.item.ID = id
                     /\ resp'[p].body[1].value.item.Name = rows[1].name
                     /\ resp'[p].body[1].value.item.Image = rows[1].image_name
                     /\ \E c \in Range(categories) :
                           /\ c.id = rows[1].category_id
                           /\ c.name = resp'[p].body[1].value.item.Category]_vars

C8_Witness ==
    \E p \in Workers :
        /\ Finished(p, "GetItemByID")
        /\ aux[p].load = "ok"
        /\ resp[p].status = StatusOK
        /\ resp[p].body[1].kind = "json"
        /\ resp[p].body[1].value.item.ID = Atoi(req[p].idStr).n
        /\ \E i \in 1..Len(items) : items[i].id = Atoi(req[p].idStr).n

\* C9: a finished AddItem with a valid form answers 500, without a
\* confirmation message, when storeImage or Insert failed, and answers 200
\* with one message that contains the item name when both succeeded.
C9_ResponseFollowsStorage ==
    \A p \in Workers :
        (Finished(p, "AddItem") /\ ValidForm(req[p]))
        => /\ aux[p].outcome \in {"storeImage failed", "Insert failed", "ok"}
           /\ aux[p].outcome # "ok" =>
                 /\ resp[p].status = StatusInternalServerError
                 /\ BodyWrites(resp[p], "json") = <<>>
           /\ aux[p].outcome = "ok" =>
                 /\ resp[p].status = StatusOK
                 /\ Len(resp[p].body) = 1
                 /\ resp[p].body[1].kind = "json"
                 /\ Contains(resp[p].body[1].value.message, req[p].name)

C9_Witness ==
    \E p, q \in Workers :
        /\ Finished(p, "AddItem") /\ aux[p].outcome = "ok"
        /\ resp[p].status = StatusOK
        /\ Finished(q, "AddItem") /\ aux[q].outcome = "Insert failed"
        /\ resp[q].status = StatusInternalServerError

\* C10: the image of every item row names a file of the image directory.
C10_ItemImagesExist ==
    \A i \in 1..Len(items) : Join(ImgDirPath, items[i].image_name) \in DOMAIN files

C10_Witness ==
    /\ Len(items) = 2
    /\ faults = 1
    /\ \A i \in 1..Len(items) : Join(ImgDirPath, items[i].image_name) \in DOMAIN files

\* C11: no two category rows have the same name; an Insert whose lookup
\* found the name creates no category row and uses the id of the row found,
\* an Insert that goes on to the item after inserting the category has
\* created one row and uses its id; every item row references the category
\* row that has the name the item was added with.
C11_OneRowPerCategoryName ==
    /\ \A i, j \in 1..Len(categories) :
          categories[i].name = categories[j].name => i = j
    /\ \A p \in Workers :
          /\ aux[p].catCreated => aux[p].catMissing
          /\ pc[p] = "Insert_item" =>
                /\ aux[p].catCreated = aux[p].catMissing
                /\ Len(RowsNamed(loc[p].item.Category)) = 1
                /\ RowsNamed(loc[p].item.Category)[1].id = loc[p].categoryID
    /\ Len(rowAdds) = Len(items)
    /\ \A i \in 1..Len(items) :
          /\ Len(RowsNamed(rowAdds[i][2])) = 1
          /\ RowsNamed(rowAdds[i][2])[1].id = items[i].category_id

C11_Witness ==
    \E p, q \in Workers :
        /\ Finished(p, "AddItem") /\ aux[p].outcome = "ok"
        /\ Finished(q, "AddItem") /\ aux[q].outcome = "ok"
        /\ req[p].category = req[q].category
        /\ aux[p].catCreated
        /\ ~aux[q].catMissing /\ ~aux[q].catCreated
        /\ Len(categories) = 1
        /\ Len(ItemsOfCategory(categories[1].id)) = 2

\* C12: without any storage failure, two requests carrying the same bytes
\* never both write the image file, and a file whose path storeImage has
\* returned to a caller is never empty or partly written.
C12_WriteOnce ==
    faults = 0 =>
        /\ \A p, q \in Workers :
              (p # q /\ aux[p].imgWrote /\ aux[q].imgWrote)
                  => req[p].file.data # req[q].file.data
        /\ \A path \in stored : path \in DOMAIN files /\ files[path] # <<>>

\* C13: a request in which a storage step failed (a step of Insert, of the
\* image store or of LoadFromDatabase) is answered with the error status:
\* the failure reached the caller.
C13_NoErrorSwallowed ==
    \A p \in Workers :
        (pc[p] = "done" /\ aux[p].faulted)
            => resp[p].status = StatusInternalServerError

\* C14: an AddItem whose Insert returned an error has added no row to the
\* categories table and no row to the items table.
C14_InsertAllOrNothing ==
    \A p \in Workers :
        (Finished(p, "AddItem") /\ aux[p].outcome = "Insert failed")
            => (~aux[p].catCreated /\ ~aux[p].itemCreated)

\* C15: without any storage failure, once no request is in progress the
\* list file decodes to one entry per Insert that returned success: as many
\* entries as successes, and for every added triple as many matching
\* entries as successful adds of that triple.
C15_ListFileMirrorsStore ==
    (faults = 0 /\ \A p \in Workers : pc[p] \in {"idle", "done"}) =>
        LET list == IF jsonFile.empty THEN <<>> ELSE jsonFile.items
        IN /\ Len(list) = Len(okAdds)
           /\ \A t \in Range(okAdds) :
                 Len(SelectSeq(list, LAMBDA item : IsItemOf(item, t)))
                     = Len(SelectSeq(okAdds, LAMBDA u : u = t))
====
